---------------------------- MODULE Spec2Model ----------------------------
(***************************************************************************)
(* A model of the genrefixer beets plugin (beetsplug/genrefixer).          *)
(*                                                                         *)
(* Conventions                                                             *)
(*   - a string is a sequence of one-character strings, so that case       *)
(*     conversion, splitting and joining are computed, not assumed;        *)
(*   - a Python dict is the sequence of its <<key, value>> items in        *)
(*     insertion order (keys distinct);                                    *)
(*   - a weight or score with three decimals is an integer number of       *)
(*     thousandths; configured weights are integer hundredths; round(x, 3) *)
(*     is round-half-to-even on the exact value (Python rounds the binary  *)
(*     double; the two agree except on decimal ties whose double is        *)
(*     inexact);                                                           *)
(*   - a call's outcome is [exc |-> "none", val |-> v] when it returns v   *)
(*     and [exc |-> e, val |-> <<>>] when it raises e.                     *)
(***************************************************************************)
EXTENDS Integers, Sequences, FiniteSets, TLC

VARIABLES
    input,      \* pure-function specifications: the arguments drawn by Init
    output,     \* pure-function specifications: the value computed
    steps,      \* pure-function specifications: the number of steps applied
    config,     \* the plugin configuration and the command line (read-only)
    library,    \* the items of the library: genre, writes to file, stores
    world,      \* what each provider answers to each kind of query, once asked
    pc,         \* where the command is: idle, items, shutdown, done, aborted
    run,        \* the number of invocations of the command so far
    error,      \* the exception that ended the invocation, if any
    dataproviders,  \* GenreFixerCommand.dataproviders (names)
    items,      \* the items retrieved by this invocation (library indices)
    idx,        \* position in items of the item being processed
    attempt,    \* position of process_item in its (provider, type) loops
    tag_groups, \* tag_groups of the item being processed
    results,    \* per invocation and item: what process_item returned
    now,        \* time.time(), in units of 0.05 s
    rate_limit, \* DataProvider.rate_limit, in units of 0.05 s
    last_request,   \* DataProvider.last_request
    stats,      \* DataProvider.stats
    cache,      \* requests_cache: the cached status of each request, 0 if none
    rpc,        \* where _request is: idle, waiting, sending
    req,        \* the request being made (its cache key)
    time_,      \* the local time_ of _request
    reply,      \* what the last finished _request returned or raised
    res,        \* the response the session returned to the running _request
    issued,     \* the times at which requests went to the network
    calls       \* the number of calls of _request so far

pureVars == <<input, output, steps>>

runVars == <<config, library, world, pc, run, error, dataproviders, items,
             idx, attempt, tag_groups, results>>

clientVars == <<now, rate_limit, last_request, stats, cache, rpc, req, time_,
                reply, res, issued, calls>>

vars == <<pureVars, runVars, clientVars>>

\* The command is not part of the pure-function specifications.
RunParked ==
    /\ config = <<>> /\ library = <<>> /\ world = <<>> /\ pc = "parked"
    /\ run = 0 /\ error = "none" /\ dataproviders = <<>> /\ items = <<>>
    /\ idx = 0 /\ attempt = <<0, 0>> /\ tag_groups = <<>> /\ results = <<>>

\* A provider's client is not part of the specifications of the command and
\* of the pure functions.
ClientParked ==
    /\ now = 0 /\ rate_limit = 0 /\ last_request = 0 /\ stats = <<>>
    /\ cache = <<>> /\ rpc = "parked" /\ req = 0 /\ time_ = 0
    /\ reply = <<>> /\ res = <<>> /\ issued = <<>> /\ calls = 0

-----------------------------------------------------------------------------
(* Characters and strings                                                  *)

LowerCase ==
    <<"a", "b", "c", "d", "e", "f", "g", "h", "i", "j", "k", "l", "m",
      "n", "o", "p", "q", "r", "s", "t", "u", "v", "w", "x", "y", "z">>

UpperCase ==
    <<"A", "B", "C", "D", "E", "F", "G", "H", "I", "J", "K", "L", "M",
      "N", "O", "P", "Q", "R", "S", "T", "U", "V", "W", "X", "Y", "Z">>

\* Code point order of the characters used: space, '-', ',', '/', upper, lower.
CodePoints == <<" ", ",", "-", "/">> \o UpperCase \o LowerCase

IndexOf(seq, c) == CHOOSE i \in 1..Len(seq) : seq[i] = c

InSeq(seq, c) == \E i \in 1..Len(seq) : seq[i] = c

Ord(c) == IndexOf(CodePoints, c)

IsCased(c) == InSeq(LowerCase, c) \/ InSeq(UpperCase, c)

Upper(c) == IF InSeq(LowerCase, c) THEN UpperCase[IndexOf(LowerCase, c)] ELSE c

Lower(c) == IF InSeq(UpperCase, c) THEN LowerCase[IndexOf(UpperCase, c)] ELSE c

\* str.upper()
upper(w) == [i \in 1..Len(w) |-> Upper(w[i])]

\* str.lower()
lower(w) == [i \in 1..Len(w) |-> Lower(w[i])]

RECURSIVE title_from(_, _, _)
title_from(w, i, prev_cased) ==
    IF i > Len(w) THEN <<>>
    ELSE LET c == w[i]
             d == IF IsCased(c)
                  THEN (IF prev_cased THEN Lower(c) ELSE Upper(c))
                  ELSE c
         IN  <<d>> \o title_from(w, i + 1, IsCased(c))

\* str.title(): the first cased character of every run of cased characters
\* is upper-cased, the others lower-cased.
title(w) == title_from(w, 1, FALSE)

RECURSIVE split_from(_, _, _)
split_from(s, i, word) ==
    IF i > Len(s) THEN <<word>>
    ELSE IF s[i] = " " THEN <<word>> \o split_from(s, i + 1, <<>>)
    ELSE split_from(s, i + 1, Append(word, s[i]))

\* str.split(' '): consecutive spaces give empty words.
split(s) == split_from(s, 1, <<>>)

RECURSIVE join(_, _)
\* glue.join(words)
join(glue, words) ==
    IF Len(words) = 0 THEN <<>>
    ELSE IF Len(words) = 1 THEN words[1]
    ELSE words[1] \o glue \o join(glue, Tail(words))

\* s < t in Python's string order (code points, then length).
RECURSIVE StrLess(_, _)
StrLess(s, t) ==
    IF Len(t) = 0 THEN FALSE
    ELSE IF Len(s) = 0 THEN TRUE
    ELSE IF s[1] = t[1] THEN StrLess(Tail(s), Tail(t))
    ELSE Ord(s[1]) < Ord(t[1])

\* common.get_formatted_tag
get_formatted_tag(tag) ==
    LET words == split(tag)
        fmt(word) == IF Len(word) < 3 THEN upper(word) ELSE title(word)
    IN  join(<<" ">>, [i \in 1..Len(words) |-> fmt(words[i])])

-----------------------------------------------------------------------------
(* Numbers                                                                 *)

\* n / d rounded to the nearest integer, ties to the even one (n >= 0, d > 0).
RoundHalfEven(n, d) ==
    LET q == n \div d
        r == n % d
    IN  IF 2 * r < d THEN q
        ELSE IF 2 * r > d THEN q + 1
        ELSE IF q % 2 = 0 THEN q ELSE q + 1

-----------------------------------------------------------------------------
(* Python values                                                           *)

Ok(v) == [exc |-> "none", val |-> v]

Raise(e) == [exc |-> e, val |-> <<>>]

PyNone == [type |-> "NoneType", items |-> <<>>]

PyList(s) == [type |-> "list", items |-> s]

PyDict(d) == [type |-> "dict", items |-> d]

\* dict operations on the sequence of items
Keys(d) == {d[i][1] : i \in 1..Len(d)}

Has(d, k) == \E i \in 1..Len(d) : d[i][1] = k

Get(d, k) == d[CHOOSE i \in 1..Len(d) : d[i][1] = k][2]

\* d[k] = v: an existing key keeps its place, a new one goes last.
Put(d, k, v) ==
    IF Has(d, k)
    THEN [i \in 1..Len(d) |-> IF d[i][1] = k THEN <<k, v>> ELSE d[i]]
    ELSE Append(d, <<k, v>>)

-----------------------------------------------------------------------------
(* common.get_normalized_tags                                              *)

\* A count is the rational <<numerator, denominator>>: a provider's count c
\* is <<c, 1>>, the fallback score of the i-th item (from 1) is <<1, i>>.
RatLeq(a, b) == a[1] * b[2] <= b[1] * a[2]

\* max(t.values())
MaxValue(t) ==
    LET vals == {t[i][2] : i \in 1..Len(t)}
    IN  CHOOSE m \in vals : \A v \in vals : RatLeq(v, m)

\* Mutant of FallbackScores: the rank is ignored, every score is 1.
FallbackScores_flat(t) == [i \in 1..Len(t) |-> <<t[i][1], <<1, 1>>>>]

\* {it[0]: score / (i + 1) for i, it in enumerate(t.items())}, score = 1
FallbackScores(t) == [i \in 1..Len(t) |-> <<t[i][1], <<1, i>>>>]

\* Mutant of FilterScale: the division by _max is forgotten.
FilterScale_unscaled(t, max, min10) ==
    [i \in 1..Len(t) |->
        <<t[i][1], RoundHalfEven(1000 * t[i][2][1], t[i][2][2])>>]

RECURSIVE FilterScale(_, _, _)
\* {k: round(v / _max, 3) for k, v in t.items() if v / _max >= _min}, with
\* _min = min10 / 10; the weights are thousandths.
FilterScale(t, max, min10) ==
    IF Len(t) = 0 THEN <<>>
    ELSE LET k    == t[1][1]
             v    == t[1][2]
             num  == v[1] * max[2]        \* v / _max = num / den
             den  == v[2] * max[1]
             rest == FilterScale(Tail(t), max, min10)
         IN  IF 10 * num >= min10 * den
             THEN <<<<k, RoundHalfEven(1000 * num, den)>>>> \o rest
             ELSE rest

\* get_normalized_tags(dp_response, _min=0.1).  A block is
\* [keys |-> the block's keys, tags |-> the value under 'tags'].
get_normalized_tags(dp_response) ==
    IF dp_response.type = "NoneType" \/ Len(dp_response.items) = 0    \* falsy
    THEN Ok(<<>>)
    ELSE IF Len(dp_response.items) # 1 THEN Ok(<<>>)
    ELSE IF "tags" \notin dp_response.items[1].keys THEN Ok(<<>>)
    ELSE LET t == dp_response.items[1].tags
         IN  IF t.type = "NoneType" THEN Raise("TypeError")     \* len(None)
             ELSE IF Len(t.items) = 0 THEN Ok(<<>>)
             ELSE LET counts == [i \in 1..Len(t.items) |->
                                   <<t.items[i][1], <<t.items[i][2], 1>>>>]
                      zero   == MaxValue(counts)[1] = 0
                      tt     == IF zero THEN FallbackScores(counts) ELSE counts
                  IN  Ok(FilterScale(tt, MaxValue(tt), 1))

\* {common.get_formatted_tag(k): v for k, v in tags.items()}
RECURSIVE FormatKeys(_, _)
FormatKeys(tags, acc) ==
    IF Len(tags) = 0 THEN acc
    ELSE FormatKeys(Tail(tags),
                    Put(acc, get_formatted_tag(tags[1][1]), tags[1][2]))

\* The tail of get_tags_from_provider: normalize the response, then format
\* every key.
normalize(resp) ==
    LET tags == get_normalized_tags(resp)
    IN  IF tags.exc # "none" THEN tags ELSE Ok(FormatKeys(tags.val, <<>>))

-----------------------------------------------------------------------------
(* Specification SpecNormalize: get_normalized_tags and the formatting of  *)
(* its keys, on every response of a bounded set.                           *)

MaxEntries == 3     \* items of a tag map
MaxCount == 2       \* small counts are 0..MaxCount
MaxZeroTags == 11   \* length of the longest all-zero tag map

deep_house == <<"d", "e", "e", "p", " ", "h", "o", "u", "s", "e">>
Deep_House == <<"D", "e", "e", "p", " ", "H", "o", "u", "s", "e">>
rock == <<"r", "o", "c", "k">>
uk_pop == <<"u", "k", " ", "p", "o", "p">>

RawTags == {deep_house, Deep_House, rock, uk_pop}

\* Small counts, and two large ones that put small counts at and below the
\* floor of 0.1.
Counts == (0..MaxCount) \cup {10 * MaxCount, 10 * MaxCount + 1}

\* The tag maps over keys K with values V, of at most n items.
DictsOver(K, V, n) ==
    UNION {
        {d \in [1..m -> K \X V] : \A i, j \in 1..m : i # j => d[i][1] # d[j][1]}
        : m \in 0..n }

\* n distinct keys with count 0: "a", "aa", "aaa", ...
ZeroDict(n) == [i \in 1..n |-> <<[j \in 1..i |-> "a"], 0>>]

TagMaps ==
    DictsOver(RawTags, Counts, MaxEntries) \cup {ZeroDict(n) : n \in 1..MaxZeroTags}

Block(tags) == [keys |-> {"tags"}, tags |-> tags]

BlockNoTags == [keys |-> {"name"}, tags |-> PyNone]

Blocks == {BlockNoTags, Block(PyNone)} \cup {Block(PyDict(d)) : d \in TagMaps}

FewBlocks ==
    {BlockNoTags, Block(PyNone), Block(PyDict(<<>>)), Block(PyDict(<<<<rock, 1>>>>))}

Responses ==
    {PyNone, PyList(<<>>)}
        \cup {PyList(<<b>>) : b \in Blocks}
        \cup {PyList(<<b1, b2>>) : b1 \in FewBlocks, b2 \in FewBlocks}
        \cup {PyList(<<b, b, b>>) : b \in FewBlocks}

InitNormalize ==
    /\ input \in Responses
    /\ output = <<>>
    /\ steps = 0
    /\ RunParked
    /\ ClientParked

\* tags = common.get_normalized_tags(resp), then the formatting of the keys
Normalize ==
    /\ steps = 0
    /\ steps' = 1
    /\ output' = [normalized |-> get_normalized_tags(input),
                  formatted  |-> normalize(input)]
    /\ UNCHANGED <<input, runVars, clientVars>>

NextNormalize == Normalize

SpecNormalize == InitNormalize /\ [][NextNormalize]_vars

-----------------------------------------------------------------------------
(* Properties of normalization, under SpecNormalize                        *)

\* The response is exactly one block that carries a tag map (a dict).
OneBlockWithTagMap(resp) ==
    /\ resp.type = "list"
    /\ Len(resp.items) = 1
    /\ "tags" \in resp.items[1].keys
    /\ resp.items[1].tags.type = "dict"

\* The tag map of such a response.
TagMapOf(resp) == resp.items[1].tags.items

MaxCountOf(d) == CHOOSE m \in {d[i][2] : i \in 1..Len(d)} :
                     \A i \in 1..Len(d) : d[i][2] <= m

\* C5: a response that is not exactly one block carrying a tag map (none,
\* zero blocks, several blocks, one block whose tag map is missing or null),
\* or one block with an empty tag map, normalizes to the empty weight map
\* and does not fail.
C5_UnusableResponseIsEmpty ==
    (steps = 1 /\ (~OneBlockWithTagMap(input) \/ Len(TagMapOf(input)) = 0))
        => output.normalized = Ok(<<>>)

\* C6: for a nonempty map of non-negative counts whose maximum is positive,
\* every weight is in [0, 1] (0..1000 thousandths) and every tag holding the
\* maximum count is in the result with weight exactly 1.0.
C6_WeightsBoundedMaxIsOne ==
    (steps = 1 /\ OneBlockWithTagMap(input) /\ Len(TagMapOf(input)) > 0
        /\ MaxCountOf(TagMapOf(input)) > 0)
        => LET d == TagMapOf(input)
               w == output.normalized.val
           IN  /\ output.normalized.exc = "none"
               /\ \A i \in 1..Len(w) : w[i][2] \in 0..1000
               /\ \A i \in 1..Len(d) :
                      d[i][2] = MaxCountOf(d)
                          => Has(w, d[i][1]) /\ Get(w, d[i][1]) = 1000

\* C6 witness: a map with a positive maximum was normalized, one of its tags
\* got weight 1.0 and another fell below the floor and was dropped.
C6_Witness ==
    /\ steps = 1 /\ OneBlockWithTagMap(input) /\ Len(TagMapOf(input)) > 1
    /\ MaxCountOf(TagMapOf(input)) > 0
    /\ output.normalized.exc = "none"
    /\ Len(output.normalized.val) < Len(TagMapOf(input))
    /\ \E i \in 1..Len(output.normalized.val) : output.normalized.val[i][2] = 1000

AllZero(d) == Len(d) > 0 /\ \A i \in 1..Len(d) : d[i][2] = 0

\* C7: in a map whose counts are all 0, the i-th tag in insertion order
\* (from 0) is scored 1 / (i + 1), then divided by the maximum, rounded and
\* filtered by the floor as usual: the first tag survives with weight 1.0 and
\* the survivors' weights strictly decrease in insertion order.
C7_ZeroCountsFallBackToRank ==
    (steps = 1 /\ OneBlockWithTagMap(input) /\ AllZero(TagMapOf(input)))
        => LET d == TagMapOf(input)
               w == output.normalized.val
               n == IF Len(d) < 10 THEN Len(d) ELSE 10
           IN  /\ output.normalized.exc = "none"
               /\ Len(w) = n
               /\ w[1] = <<d[1][1], 1000>>
               /\ \A i \in 1..n : w[i] = <<d[i][1], RoundHalfEven(1000, i)>>
               /\ \A i, j \in 1..n : i < j => w[i][2] > w[j][2]

\* C7 witness: an all-zero map longer than ten tags was normalized and its
\* tail fell below the floor.
C7_Witness ==
    /\ steps = 1 /\ OneBlockWithTagMap(input) /\ AllZero(TagMapOf(input))
    /\ Len(TagMapOf(input)) > 10
    /\ Len(output.normalized.val) = 10
    /\ output.normalized.val[3][2] = 333

RECURSIVE SumOfKeysFormattedAs(_, _)
\* The sum of the weights of the keys of w whose formatted form is k.
SumOfKeysFormattedAs(w, k) ==
    IF Len(w) = 0 THEN 0
    ELSE (IF get_formatted_tag(w[1][1]) = k THEN w[1][2] ELSE 0)
             + SumOfKeysFormattedAs(Tail(w), k)

\* C8: when formatting maps distinct surviving keys of one normalized map to
\* the same key, that key's weight is the sum of their weights.
C8_CollidingKeysAreSummed ==
    (steps = 1 /\ output.formatted.exc = "none")
        => \A i \in 1..Len(output.formatted.val) :
               output.formatted.val[i][2]
                   = SumOfKeysFormattedAs(output.normalized.val,
                                          output.formatted.val[i][1])

-----------------------------------------------------------------------------
(* GenreFixerCommand.create_unified_tag_list                               *)

\* Names of the providers (DataProvider.name) and of the query types.
Discogs == <<"D", "i", "s", "c", "o", "g", "s">>
LastFM == <<"L", "a", "s", "t", "F", "M">>
MBrainz == <<"M", "B", "r", "a", "i", "n", "z">>
artist == <<"a", "r", "t", "i", "s", "t">>
album == <<"a", "l", "b", "u", "m">>

RECURSIVE AddTags(_, _, _)
\* for k, v in tags.items(): v = v * pweight * tweight; if k in ulist:
\* v = ulist[k] + v; ulist[k] = round(v, 3).  w = pweight * tweight in
\* ten-thousandths, v in thousandths.
AddTags(ulist, tags, w) ==
    IF Len(tags) = 0 THEN ulist
    ELSE LET k == tags[1][1]
             v == tags[1][2] * w
             total == IF Has(ulist, k) THEN Get(ulist, k) * 10000 + v ELSE v
         IN  AddTags(Put(ulist, k, RoundHalfEven(total, 10000)), Tail(tags), w)

RECURSIVE UnifyFrom(_, _, _)
UnifyFrom(conf, groups, ulist) ==
    IF Len(groups) = 0 THEN ulist
    ELSE LET tg == groups[1]
             pweight == Get(conf.providers, lower(tg.provider)).weight
             tweight == Get(conf.types, lower(tg.qtype))
         IN  UnifyFrom(conf, Tail(groups),
                       AddTags(ulist, tg.tags, pweight * tweight))

\* create_unified_tag_list(tag_groups): weights are hundredths, scores
\* thousandths.
create_unified_tag_list(conf, groups) == UnifyFrom(conf, groups, <<>>)

-----------------------------------------------------------------------------
(* Specification SpecAggregate: create_unified_tag_list on a sequence of   *)
(* tag groups and on a permutation of it.                                  *)

MaxGroups == 4      \* tag groups in one call

Rock == <<"R", "o", "c", "k">>
Hard_Rock == <<"H", "a", "r", "d", " ", "R", "o", "c", "k">>
Pop == <<"P", "o", "p">>
Jazz == <<"J", "a", "z", "z">>

\* provider weights and type weights, in hundredths
WeightConfig(wd, wl, wm, war, wal) ==
    [providers |-> << <<lower(Discogs), [enabled |-> TRUE, weight |-> wd]>>,
                      <<lower(LastFM), [enabled |-> TRUE, weight |-> wl]>>,
                      <<lower(MBrainz), [enabled |-> TRUE, weight |-> wm]>> >>,
     types     |-> << <<artist, war>>, <<album, wal>> >>]

AggConfigs ==
    {WeightConfig(100, 100, 100, 50, 100),
     WeightConfig(100, 25, 25, 50, 25),
     WeightConfig(100, 50, 25, 100, 100)}

\* The (provider, query type) pairs in the order process_item visits them.
AllPairs ==
    << <<Discogs, artist>>, <<Discogs, album>>, <<LastFM, artist>>,
       <<LastFM, album>>, <<MBrainz, artist>>, <<MBrainz, album>> >>

GroupTags == { <<<<Rock, 1000>>>>, <<<<Rock, 1000>>, <<Hard_Rock, 400>>>> }

\* Sequences of n tag groups of distinct pairs, in visiting order.
GroupSeqs(n) ==
    {[i \in 1..n |-> [provider |-> AllPairs[ix[i]][1],
                      qtype    |-> AllPairs[ix[i]][2],
                      tags     |-> tg[i]]]
        : ix \in {f \in [1..n -> 1..Len(AllPairs)] :
                     \A i, j \in 1..n : i < j => f[i] < f[j]},
          tg \in [1..n -> GroupTags]}

Perms(n) == {f \in [1..n -> 1..n] : \A i, j \in 1..n : i # j => f[i] # f[j]}

InitAggregate ==
    /\ \E n \in 1..MaxGroups :
         input \in [config : AggConfigs, groups : GroupSeqs(n), perm : Perms(n)]
    /\ output = <<>>
    /\ steps = 0
    /\ RunParked
    /\ ClientParked

\* One call on the groups and one on the permuted groups.
Aggregate ==
    /\ steps = 0
    /\ steps' = 1
    /\ output' =
         [unified  |-> create_unified_tag_list(input.config, input.groups),
          permuted |-> create_unified_tag_list(input.config,
                          [i \in 1..Len(input.groups) |->
                              input.groups[input.perm[i]]])]
    /\ UNCHANGED <<input, runVars, clientVars>>

NextAggregate == Aggregate

SpecAggregate == InitAggregate /\ [][NextAggregate]_vars

Abs(x) == IF x < 0 THEN -x ELSE x

\* C3: aggregation is order-independent: a permutation of the records gives
\* every tag the same unified score, within 0.001 (one thousandth).
C3_AggregationOrderIndependent ==
    steps = 1
        => /\ Keys(output.unified) = Keys(output.permuted)
           /\ \A k \in Keys(output.unified) :
                  Abs(Get(output.unified, k) - Get(output.permuted, k)) <= 1

-----------------------------------------------------------------------------
(* GenreFixerCommand.get_scored_tags and the selection of process_item     *)

\* Mutant of Multiplier: the lists are tested in the opposite order.
Multiplier_loveFirst(conf, k) ==
    IF InSeq(conf.love_list, k) THEN 30
    ELSE IF InSeq(conf.like_list, k) THEN 15
    ELSE IF InSeq(conf.dislike_list, k) THEN 5
    ELSE IF InSeq(conf.hate_list, k) THEN 0
    ELSE 10

\* The multiplier m of tag k, in tenths.
Multiplier(conf, k) ==
    IF InSeq(conf.hate_list, k) THEN 0
    ELSE IF InSeq(conf.dislike_list, k) THEN 5
    ELSE IF InSeq(conf.like_list, k) THEN 15
    ELSE IF InSeq(conf.love_list, k) THEN 30
    ELSE 10

\* get_scored_tags(tags): tags[k] = round(v * m, 3) for every item, in place.
get_scored_tags(conf, tags) ==
    [i \in 1..Len(tags) |->
        <<tags[i][1], RoundHalfEven(tags[i][2] * Multiplier(conf, tags[i][1]), 10)>>]

RECURSIVE InsertDescending(_, _)
\* The item goes after every item whose score is not smaller.
InsertDescending(its, item) ==
    IF Len(its) = 0 THEN <<item>>
    ELSE IF its[1][2] >= item[2]
         THEN <<its[1]>> \o InsertDescending(Tail(its), item)
         ELSE <<item>> \o its

RECURSIVE SortFrom(_, _)
SortFrom(its, acc) ==
    IF Len(its) = 0 THEN acc
    ELSE SortFrom(Tail(its), InsertDescending(acc, its[1]))

\* Mutant of sorted_by_score: descending by score, ties in reverse order of
\* insertion (an ascending sort read backwards).
sorted_by_score_reversed(tags) ==
    LET r == SortFrom([i \in 1..Len(tags) |-> tags[Len(tags) + 1 - i]], <<>>)
    IN  r

\* sorted(tags.its(), key=operator.itemgetter(1), reverse=True): a stable
\* sort, its of equal score keep the order of the dict.
sorted_by_score(tags) == SortFrom(tags, <<>>)

\* [v[0] for v in tags][:_max]
top_tags(tags, max) ==
    [i \in 1..(IF Len(tags) < max THEN Len(tags) ELSE max) |-> tags[i][1]]

-----------------------------------------------------------------------------
(* Specification SpecSelect: scoring, ordering and selection on a bounded  *)
(* set of unified score maps and preference lists.                         *)

MaxTags == 2        \* largest max_tags
MaxScored == 3      \* items of a unified score map

comma_space == <<",", " ">>

SelectTags == {Rock, Pop, Jazz}

SelectScores == {333, 1000, 5000}

\* hate, dislike, like and love lists
PrefLists ==
    {[hate_list |-> h, dislike_list |-> d, like_list |-> l, love_list |-> v]
        : h \in {<<>>, <<Rock>>}, d \in {<<>>, <<Pop>>},
          l \in {<<>>, <<Pop, Rock>>}, v \in {<<>>, <<Rock, Jazz>>}}

InitSelect ==
    /\ input \in [prefs    : PrefLists,
                  tags     : DictsOver(SelectTags, SelectScores, MaxScored),
                  max_tags : 1..MaxTags]
    /\ output = <<>>
    /\ steps = 0
    /\ RunParked
    /\ ClientParked

\* tags = self.get_scored_tags(tags)
Score ==
    /\ steps = 0
    /\ steps' = 1
    /\ output' = [scored |-> get_scored_tags(input.prefs, input.tags),
                  ordered |-> <<>>, top_tags |-> <<>>]
    /\ UNCHANGED <<input, runVars, clientVars>>

\* tags = sorted(...); top_tags = [v[0] for v in tags][:_max]
Select ==
    /\ steps = 1
    /\ steps' = 2
    /\ output' = [output EXCEPT
                    !.ordered = sorted_by_score(output.scored),
                    !.top_tags = top_tags(sorted_by_score(output.scored),
                                          input.max_tags)]
    /\ UNCHANGED <<input, runVars, clientVars>>

NextSelect == Score \/ Select

SpecSelect == InitSelect /\ [][NextSelect]_vars

\* The position of tag k in the dict d.
PositionOf(d, k) == CHOOSE i \in 1..Len(d) : d[i][1] = k

IsPrefixOfNames(names, its, max) ==
    /\ Len(names) = (IF Len(its) < max THEN Len(its) ELSE max)
    /\ \A i \in 1..Len(names) : names[i] = its[i][1]

\* C4 as stated: tags are ordered by score descending, every tie between
\* equal scores is broken by tag name ascending, and the first max_tags of
\* that order are selected ({Rock:5.0, Pop:5.0, Jazz:1.0}, max_tags = 2
\* selects [Pop, Rock]).
C4_TiesBrokenByName ==
    steps = 2
        => /\ \A i, j \in 1..Len(output.ordered) :
                  i < j => \/ output.ordered[i][2] > output.ordered[j][2]
                           \/ /\ output.ordered[i][2] = output.ordered[j][2]
                              /\ StrLess(output.ordered[i][1], output.ordered[j][1])
           /\ IsPrefixOfNames(output.top_tags, output.ordered, input.max_tags)

\* C4 as amended: tags are ordered by score descending, every tie between
\* equal scores keeps the order in which the tags entered the score map, and
\* the first max_tags of that order are selected.
C4_TiesKeepInsertionOrder ==
    steps = 2
        => /\ Len(output.ordered) = Len(output.scored)
           /\ \A i \in 1..Len(output.scored) :
                  \E j \in 1..Len(output.ordered) :
                      output.ordered[j] = output.scored[i]
           /\ \A i, j \in 1..Len(output.ordered) :
                  i < j => \/ output.ordered[i][2] > output.ordered[j][2]
                           \/ /\ output.ordered[i][2] = output.ordered[j][2]
                              /\ PositionOf(output.scored, output.ordered[i][1])
                                   < PositionOf(output.scored, output.ordered[j][1])
           /\ IsPrefixOfNames(output.top_tags, output.ordered, input.max_tags)

\* C4 witness: the claim's example; Rock entered the map before Pop with
\* the same score, and [Rock, Pop] is selected.
C4_Witness ==
    /\ steps = 2
    /\ output.scored = << <<Rock, 5000>>, <<Pop, 5000>>, <<Jazz, 1000>> >>
    /\ input.max_tags = 2
    /\ output.top_tags = <<Rock, Pop>>

\* The multiplier the claim gives tag k, in tenths: the first list that
\* holds k, in the order hate, dislike, like, love.
ClaimedMultiplier(prefs, k) ==
    CASE InSeq(prefs.hate_list, k) -> 0
      [] ~InSeq(prefs.hate_list, k) /\ InSeq(prefs.dislike_list, k) -> 5
      [] ~InSeq(prefs.hate_list, k) /\ ~InSeq(prefs.dislike_list, k)
            /\ InSeq(prefs.like_list, k) -> 15
      [] ~InSeq(prefs.hate_list, k) /\ ~InSeq(prefs.dislike_list, k)
            /\ ~InSeq(prefs.like_list, k) /\ InSeq(prefs.love_list, k) -> 30
      [] OTHER -> 10

\* C9: every tag keeps its place in the candidate set and its score is its
\* unified score times the multiplier of the first list holding it (hate 0,
\* dislike 0.5, like 1.5, love 3, else 1), rounded to 3 decimals; a hated
\* tag scores exactly 0 and is not removed.
C9_FirstMatchingListDecides ==
    steps >= 1
        => /\ Len(output.scored) = Len(input.tags)
           /\ \A i \in 1..Len(input.tags) :
                  LET k == input.tags[i][1]
                      v == input.tags[i][2]
                      n == output.scored[i][2]
                  IN  /\ output.scored[i][1] = k
                      /\ Abs(10 * n - v * ClaimedMultiplier(input.prefs, k)) <= 5
                      /\ InSeq(input.prefs.hate_list, k) => n = 0

\* C9 witness: a tag in the hate list and in the like and love lists, with a
\* positive unified score, was scored 0 and is still a candidate, while a
\* tag only in the love list was tripled.
C9_Witness ==
    /\ steps >= 1
    /\ InSeq(input.prefs.hate_list, Rock) /\ InSeq(input.prefs.love_list, Rock)
    /\ InSeq(input.prefs.like_list, Rock)
    /\ Has(input.tags, Rock) /\ Get(input.tags, Rock) = 1000
    /\ Has(output.scored, Rock) /\ Get(output.scored, Rock) = 0
    /\ Has(input.tags, Jazz) /\ Get(input.tags, Jazz) = 333
    /\ Get(output.scored, Jazz) = 999

-----------------------------------------------------------------------------
(* The command: GenreFixerCommand.func and what it calls                   *)

discogs == lower(Discogs)
lastfm == lower(LastFM)
mbrainz == lower(MBrainz)
whatcd == <<"w", "h", "a", "t", "c", "d">>
track == <<"t", "r", "a", "c", "k">>
pop == <<"p", "o", "p">>
jazz == <<"j", "a", "z", "z">>

\* dataprovider.factory(name, conf): the provider's name, or
\* DataProviderError for an unknown key.
factory(name) ==
    IF name = discogs THEN Ok(Discogs)
    ELSE IF name = lastfm THEN Ok(LastFM)
    ELSE IF name = mbrainz THEN Ok(MBrainz)
    ELSE Raise("DataProviderError")

RECURSIVE EnabledProviders(_)
\* The loop of common.setup_dataproviders: disabled providers and those the
\* factory rejects are skipped.
EnabledProviders(provider_config) ==
    IF Len(provider_config) = 0 THEN <<>>
    ELSE LET pk    == provider_config[1][1]
             pconf == provider_config[1][2]
             rest  == EnabledProviders(Tail(provider_config))
         IN  IF pconf.enabled /\ factory(pk).exc = "none"
             THEN <<factory(pk).val>> \o rest
             ELSE rest

\* common.setup_dataproviders(provider_config)
setup_dataproviders(provider_config) ==
    IF Len(EnabledProviders(provider_config)) = 0
    THEN Raise("RuntimeError")
    ELSE Ok(EnabledProviders(provider_config))

\* A response of one block with the tag map d.
OneBlock(d) == Ok(PyList(<<Block(PyDict(d))>>))

\* What dp.query_artist(metadata) / dp.query_album(metadata) can do, per
\* provider.  metadata is a dict, so MusicBrainz fails on the concatenation
\* of a str and a dict; Discogs has no artist query; a request that fails
\* (transport, status outside {200, 404}, undecodable body) raises
\* DataProviderError out of the query.
QueryOutcomes(name, qtype) ==
    IF name = Discogs
    THEN IF qtype = artist
         THEN {Raise("NotImplementedError")}
         ELSE {Raise("DataProviderError"), Ok(PyNone),
               OneBlock(<< <<jazz, 0>>, <<rock, 0>> >>)}
    ELSE IF name = LastFM
    THEN {Raise("DataProviderError"), Ok(PyNone), Ok(PyList(<<Block(PyNone)>>)),
          OneBlock(<< <<rock, 2>>, <<pop, 2>> >>),
          OneBlock(<< <<pop, 4>>, <<rock, 1>> >>)}
    ELSE {Raise("TypeError")}

\* Mutant of get_tags_from_provider: NotImplementedError is not caught.
get_tags_from_provider_uncaught(qtype, answer) ==
    LET resp == IF qtype = artist \/ qtype = album THEN answer
                ELSE Ok(PyList(<<>>))
    IN  IF resp.exc # "none" THEN resp ELSE normalize(resp.val)

\* get_tags_from_provider(dp, qtype, metadata); answer is what the query of
\* dp does when it is called.
get_tags_from_provider(qtype, answer) ==
    LET resp == IF qtype = artist \/ qtype = album
                THEN (IF answer.exc = "NotImplementedError"
                      THEN Ok(PyList(<<>>))
                      ELSE answer)
                ELSE Ok(PyList(<<>>))       \* unknown query type: logged
    IN  IF resp.exc # "none" THEN resp ELSE normalize(resp.val)

\* Mutant of process_item_end: the new genre is reported but not assigned.
process_item_end_unassigned(conf, current_genre, groups) ==
    LET tags == sorted_by_score(
                    get_scored_tags(conf, create_unified_tag_list(conf, groups)))
        top  == top_tags(tags, conf.max_tags)
    IN  [changed |-> Len(top) > 0 /\ join(conf.tag_glue, top) # current_genre,
         genre   |-> current_genre]

\* Mutant of process_item_end: the test "if top_tags" is missing.
process_item_end_unguarded(conf, current_genre, groups) ==
    LET tags == sorted_by_score(
                    get_scored_tags(conf, create_unified_tag_list(conf, groups)))
        top  == top_tags(tags, conf.max_tags)
        new_genre == join(conf.tag_glue, top)
    IN  IF new_genre # current_genre
        THEN [changed |-> TRUE, genre |-> new_genre]
        ELSE [changed |-> FALSE, genre |-> current_genre]

\* process_item from create_unified_tag_list on: whether the item changed,
\* and its genre afterwards.
process_item_end(conf, current_genre, groups) ==
    LET tags == sorted_by_score(
                    get_scored_tags(conf, create_unified_tag_list(conf, groups)))
        top  == top_tags(tags, conf.max_tags)
        new_genre == join(conf.tag_glue, top)
    IN  IF Len(top) > 0 /\ new_genre # current_genre
        THEN [changed |-> TRUE, genre |-> new_genre]
        ELSE [changed |-> FALSE, genre |-> current_genre]

\* re.search('[/,]', genre)
HasSeparator(genre) == InSeq(genre, "/") \/ InSeq(genre, ",")

\* retrieve_library_items: every item when forced, else the items whose
\* genre is empty or holds a '/' or a ','.
retrieve_library_items(conf, lib) ==
    SelectSeq([i \in 1..Len(lib) |-> i],
              LAMBDA i : conf.force \/ Len(lib[i].genre) = 0
                             \/ HasSeparator(lib[i].genre))

-----------------------------------------------------------------------------
(* Specification Spec: invocations of the command on a small library.      *)
(* The items are tracks of one album by one artist: the metadata a query   *)
(* is built from (artist, album, their ids, year) is the same for all of   *)
(* them, and so is a provider's answer to it.                              *)

MaxItems == 2       \* items in the library
MaxRuns == 2        \* invocations of the command

NoLists == [hate_list |-> <<>>, dislike_list |-> <<>>, like_list |-> <<>>,
            love_list |-> <<>>]

RunConfig(providers, types, max_tags, force) ==
    [providers |-> providers, types |-> types, max_tags |-> max_tags,
     tag_glue |-> comma_space, force |-> force,
     hate_list |-> <<Jazz>>, dislike_list |-> <<>>, like_list |-> <<Pop>>,
     love_list |-> <<>>]

Provider(key, enabled, weight) == <<key, [enabled |-> enabled, weight |-> weight]>>

ProviderConfigs ==
    { <<Provider(discogs, FALSE, 100), Provider(lastfm, TRUE, 100),
        Provider(mbrainz, FALSE, 100)>>,
      <<Provider(discogs, TRUE, 50), Provider(lastfm, TRUE, 100),
        Provider(mbrainz, FALSE, 100)>>,
      <<Provider(whatcd, TRUE, 100), Provider(lastfm, TRUE, 25),
        Provider(mbrainz, TRUE, 100)>>,
      <<Provider(discogs, FALSE, 100), Provider(lastfm, FALSE, 100),
        Provider(mbrainz, FALSE, 100)>> }

TypeConfigs ==
    { << <<artist, 50>>, <<album, 100>> >>,
      << <<album, 100>>, <<track, 100>> >>,
      << <<artist, 50>>, <<track, 100>>, <<album, 100>> >> }

RunConfigs ==
    {RunConfig(p, t, m, f) : p \in ProviderConfigs, t \in TypeConfigs,
                             m \in 1..MaxTags, f \in BOOLEAN}

InitialGenres == {<<>>, Rock}

Libraries ==
    UNION {[1..n -> [genre : InitialGenres, writes : {0}, stores : {0}]]
              : n \in 1..MaxItems}

NotDone == [done |-> FALSE, changed |-> FALSE, genre |-> <<>>]

NotAsked == [asked |-> FALSE, answer |-> Ok(PyNone)]

PureParked == input = <<>> /\ output = <<>> /\ steps = 0

Init ==
    /\ PureParked
    /\ ClientParked
    /\ config \in RunConfigs
    /\ library \in Libraries
    /\ world = [k \in {Discogs, LastFM, MBrainz} \X {artist, album} |-> NotAsked]
    /\ pc = "idle"
    /\ run = 0
    /\ error = "none"
    /\ dataproviders = <<>>
    /\ items = <<>>
    /\ idx = 0
    /\ attempt = <<0, 0>>
    /\ tag_groups = <<>>
    /\ results = [r \in 1..MaxRuns |-> [i \in 1..Len(library) |-> NotDone]]

\* qtypes = self.config["types"].keys()
qtypes == [i \in 1..Len(config.types) |-> config.types[i][1]]

\* func: setup_command, then handle_main_task up to its loop.
Func ==
    /\ pc \in {"idle", "exited"}
    /\ run < MaxRuns
    /\ run' = run + 1
    /\ idx' = 1
    /\ attempt' = <<1, 1>>
    /\ tag_groups' = <<>>
    /\ LET dps == setup_dataproviders(config.providers)
           its == retrieve_library_items(config, library)
       IN  IF dps.exc # "none"
           THEN /\ pc' = "exited"
                /\ error' = dps.exc
                /\ dataproviders' = <<>>
                /\ items' = <<>>
           ELSE /\ pc' = IF Len(its) = 0 THEN "shutdown" ELSE "items"
                /\ error' = "none"
                /\ dataproviders' = dps.val
                /\ items' = its
    /\ UNCHANGED <<pureVars, clientVars, config, library, world, results>>

\* The loops of process_item are over.
LoopDone == attempt[1] > Len(dataproviders) \/ Len(qtypes) = 0

NextAttempt ==
    IF attempt[2] < Len(qtypes)
    THEN <<attempt[1], attempt[2] + 1>>
    ELSE <<attempt[1] + 1, 1>>

\* One pass of the inner loop of process_item: get_tags_from_provider for
\* one provider and one query type.  An exception other than
\* NotImplementedError is caught nowhere and ends the invocation.
GetTags ==
    /\ pc = "items"
    /\ ~LoopDone
    /\ LET dp    == dataproviders[attempt[1]]
           qtype == qtypes[attempt[2]]
           known == qtype = artist \/ qtype = album
           key   == <<dp, IF known THEN qtype ELSE album>>
       IN  \E answer \in IF ~known THEN {Ok(PyNone)}
                         ELSE IF world[key].asked THEN {world[key].answer}
                         ELSE QueryOutcomes(dp, qtype) :
             /\ world' = IF known
                         THEN [world EXCEPT ![key] = [asked |-> TRUE, answer |-> answer]]
                         ELSE world
             /\ LET tags == get_tags_from_provider(qtype, answer)
                IN  IF tags.exc # "none"
                    THEN /\ pc' = "exited"
                         /\ error' = tags.exc
                         /\ UNCHANGED <<attempt, tag_groups>>
                    ELSE /\ tag_groups' =
                              IF Len(tags.val) > 0
                              THEN Append(tag_groups, [provider |-> dp, qtype |-> qtype,
                                                       tags |-> tags.val])
                              ELSE tag_groups
                         /\ attempt' = NextAttempt
                         /\ UNCHANGED <<pc, error>>
    /\ UNCHANGED <<pureVars, clientVars, config, library, run, dataproviders, items, idx, results>>

\* The rest of process_item, and item.try_write() and item.store() of
\* handle_main_task when it returns True.
ProcessItem ==
    /\ pc = "items"
    /\ LoopDone
    /\ LET it == items[idx]
           r  == process_item_end(config, library[it].genre, tag_groups)
           n  == IF r.changed THEN 1 ELSE 0
       IN  /\ library' = [library EXCEPT ![it] =
                             [genre  |-> r.genre,
                              writes |-> @.writes + n,
                              stores |-> @.stores + n]]
           /\ results' = [results EXCEPT ![run][it] =
                             [done |-> TRUE, changed |-> r.changed, genre |-> r.genre]]
    /\ IF idx < Len(items)
       THEN idx' = idx + 1 /\ pc' = pc
       ELSE idx' = idx /\ pc' = "shutdown"
    /\ attempt' = <<1, 1>>
    /\ tag_groups' = <<>>
    /\ UNCHANGED <<pureVars, clientVars, config, world, run, error, dataproviders, items>>

\* shutdown_command: dp.store_pickle_jar() is no method of DataProvider, so
\* the first call raises AttributeError.
Shutdown ==
    /\ pc = "shutdown"
    /\ pc' = "exited"
    /\ error' = "AttributeError"
    /\ UNCHANGED <<pureVars, clientVars, config, library, world, run, dataproviders, items,
                   idx, attempt, tag_groups, results>>

Next == Func \/ GetTags \/ ProcessItem \/ Shutdown

Spec == Init /\ [][Next]_vars

\* C1: a provider error raised by one (source, query type) attempt becomes
\* an empty contribution; the remaining attempts and the later tracks are
\* processed and the invocation never ends because of it.
C1_ProviderErrorNeverEndsTheRun ==
    ~(pc = "exited" /\ error = "DataProviderError")

\* C10: a track processed in one invocation and again in the next, with the
\* same provider answers, weights and preference lists, renders the same
\* genre the second time and reports no change; it is written at most once.
C10_SecondRunReportsNoChange ==
    \A i \in 1..Len(library) :
        /\ library[i].writes <= 1
        /\ \A r \in 1..(MaxRuns - 1) :
               (results[r][i].done /\ results[r + 1][i].done)
                   => /\ ~results[r + 1][i].changed
                      /\ results[r + 1][i].genre = results[r][i].genre

\* C10 witness: a track changed by the first invocation was processed again
\* by the second, which left it alone.
C10_Witness ==
    \E i \in 1..Len(library) :
        /\ results[1][i].done /\ results[1][i].changed
        /\ results[2][i].done /\ ~results[2][i].changed
        /\ library[i].genre = results[1][i].genre
        /\ library[i].writes = 1

-----------------------------------------------------------------------------
(* Specification SpecClient: one DataProvider instance and the requests    *)
(* its adapter makes through it.  Time is counted in units of 0.05 s.      *)

RateLimitBase == 20     \* self.rate_limit = 1.0
RateLimitDiscogs == 60  \* self.rate_limit = 3.0
RateLimitLastFM == 5    \* self.rate_limit = .25
RateLimitMBrainz == 40  \* self.rate_limit = 2.0
SleepTime == 2          \* time.sleep(.1)

Epoch == 60         \* time.time() when the instance is created
Horizon == 12       \* the clock stops at Epoch + Horizon
MaxResponseTime == 1    \* longest time a call of the session takes
MaxCalls == 3       \* calls of _request
MaxIdleTime == 2    \* longest time between two calls of _request
MaxKeys == 2        \* distinct requests (cache keys)

RateLimits == {RateLimitBase, RateLimitDiscogs, RateLimitLastFM, RateLimitMBrainz}

StatusCodes == {200, 404, 500}

\* allowable_codes=(200, 404)
Cacheable(status) == status = 200 \/ status = 404

\* No response yet.
NoResponse == [status_code |-> 0, from_cache |-> FALSE]

InitClient ==
    /\ PureParked
    /\ RunParked
    /\ now = Epoch
    /\ rate_limit \in RateLimits
    /\ last_request = 0
    /\ stats = [reqs_web |-> 0, reqs_lowcache |-> 0, time_wait |-> 0, time_resp |-> 0]
    /\ cache \in [1..MaxKeys -> {0, 200}]
    /\ rpc = "idle"
    /\ req = 0
    /\ time_ = 0
    /\ reply = Ok(0)
    /\ res = NoResponse
    /\ issued = <<>>
    /\ calls = 0

\* An adapter calls _request(url, params, method), some time after the
\* last call returned.
Request ==
    /\ rpc = "idle"
    /\ calls < MaxCalls
    /\ calls' = calls + 1
    /\ \E d \in 0..MaxIdleTime :
          /\ now + d <= Epoch + Horizon
          /\ now' = now + d
    /\ req' \in 1..MaxKeys
    /\ rpc' = "waiting"
    /\ res' = NoResponse
    /\ UNCHANGED <<pureVars, runVars, rate_limit, last_request, stats, cache,
                   time_, reply, issued>>

\* One pass of the loop of _wait_rate_limit.
WaitRateLimit ==
    /\ rpc = "waiting"
    /\ now - last_request < rate_limit
    /\ now + SleepTime <= Epoch + Horizon
    /\ now' = now + SleepTime
    /\ stats' = [stats EXCEPT !.time_wait = @ + SleepTime]
    /\ UNCHANGED <<pureVars, runVars, rate_limit, last_request, cache, rpc, req,
                   time_, reply, res, issued, calls>>

\* The loop of _wait_rate_limit ends, time_ = time.time(), and the session
\* is called; the request goes to the network unless the cache holds it.
Send ==
    /\ rpc = "waiting"
    /\ ~(now - last_request < rate_limit)
    /\ time_' = now
    /\ rpc' = "sending"
    /\ issued' = IF cache[req] = 0 THEN Append(issued, now) ELSE issued
    /\ UNCHANGED <<pureVars, runVars, now, rate_limit, last_request, stats, cache,
                   req, reply, res, calls>>

\* Mutant of request_returns: only status 200 is accepted.
request_returns_only200(status) ==
    IF status # 200 THEN Raise("DataProviderError") ELSE Ok(status)

\* What _request does with the response res whose status is status.
request_returns(status) ==
    IF status \notin {200, 404} THEN Raise("DataProviderError") ELSE Ok(status)

\* The session answers from the cache.
RespondFromCache ==
    /\ rpc = "sending"
    /\ cache[req] # 0
    /\ stats' = [stats EXCEPT !.reqs_lowcache = @ + 1]
    /\ res' = [status_code |-> cache[req], from_cache |-> TRUE]
    /\ reply' = request_returns(cache[req])
    /\ rpc' = "idle"
    /\ UNCHANGED <<pureVars, runVars, now, rate_limit, last_request, cache, req,
                   time_, issued, calls>>

\* The network answers with a response.
Respond ==
    /\ rpc = "sending"
    /\ cache[req] = 0
    /\ \E d \in 0..MaxResponseTime, status \in StatusCodes :
          /\ now + d <= Epoch + Horizon
          /\ now' = now + d
          /\ stats' = [stats EXCEPT !.reqs_web = @ + 1,
                                    !.time_resp = @ + (now + d - time_)]
          /\ last_request' = time_
          /\ cache' = IF Cacheable(status) THEN [cache EXCEPT ![req] = status]
                      ELSE cache
          /\ res' = [status_code |-> status, from_cache |-> FALSE]
          /\ reply' = request_returns(status)
    /\ rpc' = "idle"
    /\ UNCHANGED <<pureVars, runVars, rate_limit, req, time_, issued, calls>>

\* The call of the session raises.  TooManyRedirects is raised again as it
\* is.  The handler of any other RequestException reads err.message, which
\* exists under Python 2 (a DataProviderError is raised) and not under
\* Python 3 (the read raises AttributeError).
Fail ==
    /\ rpc = "sending"
    /\ cache[req] = 0
    /\ \E d \in 0..MaxResponseTime, exc \in {"TooManyRedirects", "RequestException"} :
          /\ now + d <= Epoch + Horizon
          /\ now' = now + d
          /\ reply' \in IF exc = "TooManyRedirects" THEN {Raise(exc)}
                        ELSE {Raise("DataProviderError"), Raise("AttributeError")}
    /\ rpc' = "idle"
    /\ UNCHANGED <<pureVars, runVars, rate_limit, last_request, stats, cache, req,
                   time_, res, issued, calls>>

\* The remote source never answers: session.get and session.post are called
\* without a timeout, so the call does not return.
Hang ==
    /\ rpc = "sending"
    /\ cache[req] = 0
    /\ rpc' = "blocked"
    /\ UNCHANGED <<pureVars, runVars, now, rate_limit, last_request, stats, cache,
                   req, time_, reply, res, issued, calls>>

NextClient == Request \/ WaitRateLimit \/ Send \/ RespondFromCache
                  \/ Respond \/ Fail \/ Hang

SpecClient == InitClient /\ [][NextClient]_vars

\* C2: any two consecutive network requests of one instance are issued at
\* least rate_limit apart, and last_request is the time of the latest
\* network request (successful or failed), whatever cache hits come between.
C2_NetworkRequestsSpaced ==
    /\ \A i \in 1..(Len(issued) - 1) : issued[i + 1] - issued[i] >= rate_limit
    /\ (rpc = "idle" /\ Len(issued) > 0) => last_request = issued[Len(issued)]

-----------------------------------------------------------------------------
(* Properties of the attempts of process_item (specification Spec)         *)

\* The attempt the inner loop of process_item is about to make.
AttemptPending == pc = "items" /\ ~LoopDone

AttemptProvider == dataproviders[attempt[1]]

AttemptType == qtypes[attempt[2]]

UnknownType(qtype) == qtype # artist /\ qtype # album

\* The attempt made by this step was answered with NotImplementedError.
AnsweredUnsupported ==
    /\ ~UnknownType(AttemptType)
    /\ world'[<<AttemptProvider, AttemptType>>].asked
    /\ world'[<<AttemptProvider, AttemptType>>].answer.exc = "NotImplementedError"

\* C11: an attempt whose adapter raises NotImplementedError, or whose query
\* type is neither artist nor album, records no tag group, raises nothing,
\* and leaves the loop at the next (provider, query type) pair.
C11_UnsupportedAttemptContributesNothing ==
    [][(AttemptPending /\ (UnknownType(AttemptType) \/ AnsweredUnsupported))
          => /\ tag_groups' = tag_groups
             /\ attempt' = NextAttempt
             /\ pc' = "items"
             /\ error' = error
             /\ library' = library
             /\ results' = results]_vars

\* A second track has been processed to its end by providers of which the
\* first is Discogs, whose artist query is unsupported, with the unknown
\* query type track configured between artist and album.
C11_Witness ==
    /\ Len(dataproviders) > 0
    /\ dataproviders[1] = Discogs
    /\ Len(qtypes) = 3
    /\ world[<<Discogs, artist>>].answer.exc = "NotImplementedError"
    /\ Len(items) = 2
    /\ run > 0
    /\ results[run][items[2]].done

\* The loops of process_item are over and no attempt recorded a tag group.
NoUsableTags == pc = "items" /\ LoopDone /\ tag_groups = <<>>

\* C12: a track all of whose attempts gave an empty weight map is reported
\* unchanged, whatever its genre: the genre stays, and the track is not
\* written and not stored.
C12_NoTagsNoChange ==
    [][NoUsableTags
          => /\ library' = library
             /\ results'[run][items[idx]].done
             /\ ~results'[run][items[idx]].changed
             /\ results'[run][items[idx]].genre = library[items[idx]].genre]_vars

\* A track whose genre is Rock was processed with LastFM as the only
\* provider, both of whose queries found nothing, and another track with no
\* genre likewise; neither was changed, written or stored.
C12_Witness ==
    /\ dataproviders = <<LastFM>>
    /\ world[<<LastFM, artist>>].asked /\ world[<<LastFM, artist>>].answer = Ok(PyNone)
    /\ world[<<LastFM, album>>].asked /\ world[<<LastFM, album>>].answer = Ok(PyNone)
    /\ run = 1
    /\ Len(library) = 2
    /\ library[1].genre = Rock /\ library[2].genre = <<>>
    /\ \A i \in 1..2 : /\ results[1][i].done /\ ~results[1][i].changed
                       /\ library[i].writes = 0 /\ library[i].stores = 0

-----------------------------------------------------------------------------
(* Properties of the responses of _request (specification SpecClient)      *)

\* The last call of _request is over and the session gave it a response.
Responded == rpc = "idle" /\ res.status_code # 0

\* C13: _request returns the response exactly when its status code is 200
\* or 404 and raises DataProviderError for every other status code, whether
\* the response came from the network or from the cache.
C13_ReturnsExactly200And404 ==
    Responded =>
        IF res.status_code \in {200, 404}
        THEN reply = Ok(res.status_code)
        ELSE reply = Raise("DataProviderError")

\* A response with status 404 was returned and cached earlier, and the last
\* call ended with a DataProviderError for a response with status 500.
C13_Witness ==
    /\ Responded
    /\ res.status_code = 500
    /\ reply = Raise("DataProviderError")
    /\ \E k \in 1..MaxKeys : cache[k] = 404
    /\ stats.reqs_web = 2

-----------------------------------------------------------------------------
(* Specification SpecClientLive: SpecClient with the scheduling the code   *)
(* has.  The loop of _wait_rate_limit keeps running and reaches the call   *)
(* of the session, a cached response is read, and the network either       *)
(* answers, fails or stays silent.                                         *)

\* The model's clock cannot pass its horizon, so a wait that needs more
\* time than is left is cut off by the model, not by the code.
ClockStopped == now + SleepTime > Epoch + Horizon

SpecClientLive ==
    /\ SpecClient
    /\ WF_vars(WaitRateLimit)
    /\ WF_vars(Send)
    /\ WF_vars(RespondFromCache)
    /\ WF_vars(Respond \/ Fail \/ Hang)

\* A call of _request is running.
InRequest == rpc # "idle"

\* C14: every call of _request ends, with a response or with an error: the
\* rate-limit wait ends and the call of the session returns, even when the
\* remote source never answers.
C14_EveryRequestCompletes ==
    (InRequest /\ ~ClockStopped) ~> (rpc = "idle" \/ ClockStopped)

=============================================================================
